---- MODULE Spec2Model ----
(***************************************************************************)
(* State-machine model of server.js: the per-camera recording registry     *)
(* (start-record / stop-record / encoder 'close' events), the system       *)
(* control facade (go2rtc relay and the two cloudflared tunnels), and the  *)
(* serving of a recording with or without a Range header.                  *)
(*                                                                         *)
(* Node runs every handler to its next await without interruption, so an   *)
(* action is one such run: a handler with an await is split at the await.  *)
(***************************************************************************)
EXTENDS Integers, FiniteSets, Sequences, TLC

\* ------------------------------------------------------------------ bounds
NumCams == 2
MaxProcs == 2

\* --------------------------------------------------------------- constants
MIN_FREE_GB == 20
\* Free space is counted in MiB (2^20 bytes), so that the values fit TLC's
\* integers; the divisor 1024 ** 3 bytes of getFreeSpaceGB is 1024 such units.
UnitsPerGB == 1024

\* The camera ids of the requests: ordinary ids. A camId naming a property
\* that every object inherits ("constructor", "toString") is outside this
\* set; recordProcesses[camId] is truthy for it although no entry was stored.
Cams == 1..NumCams
Procs == 1..MaxProcs
Users == {"A", "B"}

NoCam == 0          \* camId absent from the body (falsy)
NoProc == 0         \* no property in recordProcesses (undefined)
NoSession == "none" \* no property in activeCameras (undefined)
QueryFails == -1    \* checkDiskSpace rejects

\* What checkDiskSpace can report: the values around the threshold, an empty
\* disk, and a failed query.
DiskReports ==
  { 0, MIN_FREE_GB * UnitsPerGB - 1, MIN_FREE_GB * UnitsPerGB,
    MIN_FREE_GB * UnitsPerGB + 1, QueryFails }

VARIABLES
  recordProcesses,  \* camId -> encoder process, or NoProc
  activeCameras,    \* camId -> session metadata (the user), or NoSession
  req,              \* camId -> the start-record requests for it that are
                    \* waiting for the disk query, as their number
  procState,        \* encoder -> "unborn" | "running" | "exited" | "closed"
  procCam,          \* encoder -> the camId its handlers closed over
  procQ,            \* encoder -> the 'q' byte was written to its stdin
  last,             \* the handler run that led to this state, and its response
  go2rtcProc,       \* handle of the relay process, or NoProc (null)
  tunnelApiProc,    \* handle of the API tunnel process, or NoProc
  tunnelCamProc,    \* handle of the camera tunnel process, or NoProc
  tunnelApiUrl,     \* cached public URL of the API tunnel, or NoUrl (null)
  tunnelCamUrl,     \* cached public URL of the camera tunnel, or NoUrl
  sysProc,          \* relay/tunnel process -> its kind, state and signals
  sysStart,         \* system/start requests: where each one is in its handler
  sysStop,          \* system/stop requests: where each one is in its handler
  sysLast,          \* the system-control handler run that led to this state
  sysQuiet,         \* a system/stop with both flags has answered, and no
                    \* system/start was received since that stop was received
  served            \* the last GET /recordings/:file: its request and response

recVars == <<recordProcesses, activeCameras, req, procState, procCam, procQ, last>>
sysVars == <<go2rtcProc, tunnelApiProc, tunnelCamProc, tunnelApiUrl, tunnelCamUrl,
             sysProc, sysStart, sysStop, sysLast, sysQuiet>>
fileVars == <<served>>
vars == <<recVars, sysVars, fileVars>>

\* last: the step taken (op), the camId and encoder it concerns, the HTTP
\* code and status of the response it sent (code 0: none yet), the free space
\* the disk query reported, the stopped list of stopAll, and the camIds whose
\* stdin write threw.
Event(op, cam, proc, code, status) ==
  [op |-> op, cam |-> cam, proc |-> proc, code |-> code, status |-> status,
   free |-> QueryFails, stopped |-> {}, failed |-> {}]

RecInit ==
  /\ recordProcesses = [c \in Cams |-> NoProc]
  /\ activeCameras = [c \in Cams |-> NoSession]
  /\ req = [c \in Cams |-> 0]
  /\ procState = [p \in Procs |-> "unborn"]
  /\ procCam = [p \in Procs |-> NoCam]
  /\ procQ = [p \in Procs |-> FALSE]
  /\ last = Event("init", NoCam, NoProc, 0, "")

\* ----------------------------------------------------------------- helpers
Spawned == {p \in Procs : procState[p] # "unborn"}
RECURSIVE Waiting(_)
Waiting(cams) ==
  IF cams = {} THEN 0
  ELSE LET c == CHOOSE x \in cams : TRUE IN req[c] + Waiting(cams \ {c})
\* the start requests suspended at await ensureEnoughDiskSpaceOrThrow()
InFlight == Waiting(Cams)

\* GET /api/recording-status: Object.keys(recordProcesses)
recordingCamIds == {c \in Cams : recordProcesses[c] # NoProc}
\* the keys of activeCameras, as the same response lists them
activeCameraIds == {c \in Cams : activeCameras[c] # NoSession}

\* delete map[camId]
Delete(map, camId, absent) == [map EXCEPT ![camId] = absent]

InsufficientDiskAtOrBelow(free) == free <= MIN_FREE_GB * UnitsPerGB
\* freeGB < MIN_FREE_GB, with freeGB = free / UnitsPerGB
InsufficientDisk(free) == free < MIN_FREE_GB * UnitsPerGB

HeldNever(camId) == FALSE
\* if (recordProcesses[camId]) ...
Held(camId) == recordProcesses[camId] # NoProc

MissingCamIdAlways(camId) == TRUE
\* if (!camId) return res.status(400)...
MissingCamId(camId) == camId = NoCam

\* ------------------------------------------------ POST /api/start-record
\* From the request to the await of the disk query. Of the body only camId
\* is read before the await; user is read after it.
StartRecordCheck(camId) ==
  /\ IF MissingCamId(camId)
       THEN /\ last' = Event("startCheck", camId, NoProc, 400, "error")
            /\ UNCHANGED req
       ELSE IF Held(camId)
         THEN /\ last' = Event("startCheck", camId, NoProc, 409, "error")
              /\ UNCHANGED req
         ELSE /\ Cardinality(Spawned) + InFlight < MaxProcs
              /\ req' = [req EXCEPT ![camId] = @ + 1]
              /\ last' = Event("startCheck", camId, NoProc, 0, "")
  /\ UNCHANGED <<recordProcesses, activeCameras, procState, procCam, procQ>>
  /\ UNCHANGED <<sysVars, fileVars>>

AdmittedIfStillFree(camId, free) ==
  ~(free = QueryFails \/ InsufficientDisk(free)) /\ ~Held(camId)
\* the try block around ensureEnoughDiskSpaceOrThrow falls through; nothing
\* after the await looks at recordProcesses again
Admitted(camId, free) == ~(free = QueryFails \/ InsufficientDisk(free))

SessionOfNobody(user) == NoSession
\* activeCameras[camId] = { user: safeUser, ... }
SessionOf(user) == user

\* From the answer of the disk query to the response, for one of the requests
\* for camId that wait for it. spawn(FFMPEG_PATH, ...) is taken to return: it
\* stands between the write of activeCameras and that of recordProcesses, and
\* a synchronous throw of it (an argument it refuses) would leave the handler
\* there, its rejection caught by nothing in this file.
StartRecordResume(camId, user, free) ==
  /\ req[camId] > 0
  /\ LET p == Cardinality(Spawned) + 1
     IN IF ~Admitted(camId, free)
          THEN /\ last' = [Event("startResume", camId, NoProc, 507, "error") EXCEPT !.free = free]
               /\ UNCHANGED <<recordProcesses, activeCameras, procState, procCam>>
          ELSE /\ activeCameras' = [activeCameras EXCEPT ![camId] = SessionOf(user)]
               /\ procState' = [procState EXCEPT ![p] = "running"]
               /\ procCam' = [procCam EXCEPT ![p] = camId]
               /\ recordProcesses' = [recordProcesses EXCEPT ![camId] = p]
               /\ last' = [Event("startResume", camId, p, 200, "started") EXCEPT !.free = free]
  /\ req' = [req EXCEPT ![camId] = @ - 1]
  /\ UNCHANGED procQ
  /\ UNCHANGED <<sysVars, fileVars>>

\* ------------------------------------------------- POST /api/stop-record
StopAllWrittenUntilFailure(cams, failing) ==
  {c \in cams : \A f \in failing : c < f}
\* cams.forEach with the try/catch inside the loop body: the camIds whose
\* write went through, failing being those whose write throws
StopAllWritten(cams, failing) == cams \ failing

\* res.json({ status: 'stopping_all', stopped: cams })
StopAllStopped(cams, failing) == cams

StopAll(failing) ==
  /\ failing \subseteq recordingCamIds
  /\ LET cams == recordingCamIds
     IN IF cams = {}
          THEN /\ last' = Event("stopAll", NoCam, NoProc, 200, "not recording")
               /\ UNCHANGED procQ
          ELSE /\ procQ' = [p \in Procs |->
                     IF \E c \in StopAllWritten(cams, failing) : recordProcesses[c] = p
                       THEN TRUE ELSE procQ[p]]
               /\ last' = [Event("stopAll", NoCam, NoProc, 200, "stopping_all")
                             EXCEPT !.stopped = StopAllStopped(cams, failing),
                                    !.failed = failing]
  /\ UNCHANGED <<recordProcesses, activeCameras, req, procState, procCam>>
  /\ UNCHANGED <<sysVars, fileVars>>

NotRecordingNever(proc) == FALSE
\* if (!proc)
NotRecording(proc) == proc = NoProc

StopKeepsEntry(map, camId, absent) == map
\* after the write: delete recordProcesses[camId]; delete activeCameras[camId]
StopDelete(map, camId, absent) == Delete(map, camId, absent)

StopFailedDeletes(map, camId, absent) == Delete(map, camId, absent)
\* the catch block returns before the two deletes
StopFailed(map, camId, absent) == map

\* stop of one camId; writeOk is whether proc.stdin.write('q') returns.
StopRecord(camId, writeOk) ==
  /\ IF camId = NoCam
       THEN /\ last' = Event("stop", camId, NoProc, 400, "error")
            /\ UNCHANGED <<recordProcesses, activeCameras, procQ>>
       ELSE LET proc == recordProcesses[camId]
            IN IF NotRecording(proc)
                 THEN /\ last' = Event("stop", camId, NoProc, 200, "not recording")
                      /\ UNCHANGED <<recordProcesses, activeCameras, procQ>>
                 ELSE IF ~writeOk
                   THEN /\ last' = [Event("stop", camId, proc, 500, "error")
                                     EXCEPT !.failed = {camId}]
                        /\ recordProcesses' = StopFailed(recordProcesses, camId, NoProc)
                        /\ activeCameras' = StopFailed(activeCameras, camId, NoSession)
                        /\ UNCHANGED procQ
                   ELSE /\ procQ' = [p \in Procs |-> IF p = proc THEN TRUE ELSE procQ[p]]
                        /\ recordProcesses' = StopDelete(recordProcesses, camId, NoProc)
                        /\ activeCameras' = StopDelete(activeCameras, camId, NoSession)
                        /\ last' = Event("stop", camId, proc, 200, "stopping")
  /\ UNCHANGED <<req, procState, procCam>>
  /\ UNCHANGED <<sysVars, fileVars>>

\* ------------------------------------------------------ encoder processes
\* The encoder ends: after the 'q' byte, or on its own (a crash, a lost stream).
ProcExit(p) ==
  /\ procState[p] = "running"
  /\ procState' = [procState EXCEPT ![p] = "exited"]
  /\ last' = Event("exit", procCam[p], p, 0, "")
  /\ UNCHANGED <<recordProcesses, activeCameras, req, procCam, procQ>>
  /\ UNCHANGED <<sysVars, fileVars>>

CloseKeepsEntry(map, camId, absent) == map
\* delete recordProcesses[camId]; delete activeCameras[camId], by the camId
\* the callback closed over, whatever process the entry holds now
CloseDelete(map, camId, absent) == Delete(map, camId, absent)

\* proc.on('close')
Close(p) ==
  /\ procState[p] = "exited"
  /\ procState' = [procState EXCEPT ![p] = "closed"]
  /\ recordProcesses' = CloseDelete(recordProcesses, procCam[p], NoProc)
  /\ activeCameras' = CloseDelete(activeCameras, procCam[p], NoSession)
  /\ last' = Event("close", procCam[p], p, 0, "")
  /\ UNCHANGED <<req, procCam, procQ>>
  /\ UNCHANGED <<sysVars, fileVars>>

Next ==
  \/ \E c \in Cams \cup {NoCam} : StartRecordCheck(c)
  \/ \E c \in Cams, u \in Users, f \in DiskReports : StartRecordResume(c, u, f)
  \/ \E F \in SUBSET Cams : StopAll(F)
  \/ \E c \in Cams \cup {NoCam}, ok \in BOOLEAN : StopRecord(c, ok)
  \/ \E p \in Procs : ProcExit(p)
  \/ \E p \in Procs : Close(p)

\* Start requests handled one at a time: a request is taken up only when no
\* other start is waiting for its disk query.
SeqNext ==
  \/ \E c \in Cams \cup {NoCam} : InFlight = 0 /\ StartRecordCheck(c)
  \/ \E c \in Cams, u \in Users, f \in DiskReports : StartRecordResume(c, u, f)
  \/ \E F \in SUBSET Cams : StopAll(F)
  \/ \E c \in Cams \cup {NoCam}, ok \in BOOLEAN : StopRecord(c, ok)
  \/ \E p \in Procs : ProcExit(p)
  \/ \E p \in Procs : Close(p)

\* =================================================== system control facade
MaxSysProcs == 2
MaxSysStarts == 1
MaxSysStops == 1
MaxChunkLen == 2

SysProcs == 1..MaxSysProcs
SysStarts == 1..MaxSysStarts
SysStops == 1..MaxSysStops
NoUrl == "null"
Urls == {"https://a.trycloudflare.com", "https://b.trycloudflare.com"}
\* The pieces a chunk of cloudflared output is made of: a matching URL, or
\* text the pattern does not match.
Pieces == Urls \cup {"http://c.trycloudflare.com"}
Chunks == UNION {[1..n -> Pieces] : n \in 1..MaxChunkLen}

Unborn == [kind |-> "none", state |-> "unborn", sig |-> "none"]
\* What a start function returns: { ok, msg } and, where there is one, the pid.
Result(ok, msg, pid) == [ok |-> ok, msg |-> msg, pid |-> pid]
NoResult == Result(TRUE, "", NoProc)
Closed == [kind |-> "none", state |-> "closed", sig |-> "none"]
IdleStart == [pc |-> "idle", tunnels |-> FALSE]
\* clean: no system/start was received since this stop was received
IdleStop == [pc |-> "idle", tunnels |-> FALSE, go2rtc |-> FALSE, clean |-> FALSE]
\* sysLast: the step taken, the process it concerns, the URL a data callback
\* extracted, what the start function called in the step returned (the
\* response of system/start lists the three returns of its three steps), and
\* for a step of system/stop the two flags of its request, for a start
\* attempt whether the executable and the config file it needs are on disk.
SysEvent(op, proc, url, res) ==
  [op |-> op, proc |-> proc, url |-> url, res |-> res,
   stopTunnels |-> FALSE, stopGo2rtc |-> FALSE, exe |-> TRUE, yaml |-> TRUE]

SysInit ==
  /\ go2rtcProc = NoProc
  /\ tunnelApiProc = NoProc
  /\ tunnelCamProc = NoProc
  /\ tunnelApiUrl = NoUrl
  /\ tunnelCamUrl = NoUrl
  /\ sysProc = [p \in SysProcs |-> Unborn]
  /\ sysStart = [s \in SysStarts |-> IdleStart]
  /\ sysStop = [t \in SysStops |-> IdleStop]
  /\ sysLast = SysEvent("init", NoProc, NoUrl, NoResult)
  /\ sysQuiet = FALSE

\* The module-level lets of the facade, as one value the helpers pass along.
SysSt ==
  [go2 |-> go2rtcProc, api |-> tunnelApiProc, cam |-> tunnelCamProc,
   apiUrl |-> tunnelApiUrl, camUrl |-> tunnelCamUrl, procs |-> sysProc]

SetSys(st) ==
  /\ go2rtcProc' = st.go2
  /\ tunnelApiProc' = st.api
  /\ tunnelCamProc' = st.cam
  /\ tunnelApiUrl' = st.apiUrl
  /\ tunnelCamUrl' = st.camUrl
  /\ sysProc' = st.procs

SysSpawned(st) == {p \in SysProcs : st.procs[p].state # "unborn"}

isProcRunningNever(st, p) == FALSE
\* p && !p.killed && p.exitCode === null. exitCode stays null for a process
\* that a signal ended (state "signalled": signalCode is set instead).
isProcRunning(st, p) ==
  /\ p # NoProc
  /\ st.procs[p].sig # "killed"
  /\ st.procs[p].state \in {"running", "signalled"}

\* String(text).match(/https:\/\/[a-z0-9-]+\.trycloudflare\.com/i)
Matches(piece) == piece \in Urls

RECURSIVE extractTryCloudflareUrl(_)
extractTryCloudflareUrl(text) ==
  IF text = <<>> THEN NoUrl
  ELSE IF Matches(Head(text)) THEN Head(text)
  ELSE extractTryCloudflareUrl(Tail(text))

\* spawn(...): the next process of the kind, running
SysSpawn(st, kind) ==
  LET p == Cardinality(SysSpawned(st)) + 1
  IN [st EXCEPT !.procs = [q \in SysProcs |->
         IF q = p THEN [kind |-> kind, state |-> "running", sig |-> "none"]
         ELSE st.procs[q]]]

existsSyncAlways(onDisk) == TRUE
\* fs.existsSync(path), onDisk being whether the file is there
existsSync(onDisk) == onDisk

startGo2rtc(st, exe, yaml) ==
  IF isProcRunning(st, st.go2)
    THEN [st |-> st, res |-> Result(TRUE, "go2rtc already running", st.go2)]
  ELSE IF ~existsSync(exe)
    THEN [st |-> st, res |-> Result(FALSE, "go2rtc.exe not found", NoProc)]
  ELSE IF ~existsSync(yaml)
    THEN [st |-> st, res |-> Result(FALSE, "go2rtc.yaml not found", NoProc)]
  ELSE LET p == Cardinality(SysSpawned(st)) + 1
       IN [st |-> [SysSpawn(st, "go2rtc") EXCEPT !.go2 = p],
           res |-> Result(TRUE, "go2rtc started", p)]

startTunnelApi(st, exe) ==
  IF isProcRunning(st, st.api)
    THEN [st |-> st, res |-> Result(TRUE, "tunnel-api already running", st.api)]
  ELSE IF ~existsSync(exe)
    THEN [st |-> st, res |-> Result(FALSE, "cloudflared.exe not found", NoProc)]
  ELSE LET p == Cardinality(SysSpawned(st)) + 1
       IN [st |-> [SysSpawn(st, "tunnelApi") EXCEPT !.api = p, !.apiUrl = NoUrl],
           res |-> Result(TRUE, "tunnel-api started", p)]

startTunnelCam(st, exe) ==
  IF isProcRunning(st, st.cam)
    THEN [st |-> st, res |-> Result(TRUE, "tunnel-cam already running", st.cam)]
  ELSE IF ~existsSync(exe)
    THEN [st |-> st, res |-> Result(FALSE, "cloudflared.exe not found", NoProc)]
  ELSE LET p == Cardinality(SysSpawned(st)) + 1
       IN [st |-> [SysSpawn(st, "tunnelCam") EXCEPT !.cam = p, !.camUrl = NoUrl],
           res |-> Result(TRUE, "tunnel-cam started", p)]

SkipStartsTunnelCam(st, msg) == startTunnelCam(st, TRUE)
\* startTunnels ? ... : { ok: true, msg: 'skip tunnel-api' } (or 'skip tunnel-cam')
SkipTunnel(st, msg) == [st |-> st, res |-> Result(TRUE, msg, NoProc)]

\* A start that spawns needs a process left within the bound.
WithinBound(r) == r.res.pid <= MaxSysProcs

\* ------------------------------------------------ POST /api/system/start
\* startGo2rtc(), then the 1500 ms timer
SystemStartGo2rtc(s, startTunnels, exe, yaml) ==
  /\ sysStart[s].pc = "idle"
  /\ \A s2 \in SysStarts : s2 < s => sysStart[s2].pc # "idle"
  /\ LET r == startGo2rtc(SysSt, exe, yaml)
     IN /\ WithinBound(r)
        /\ SetSys(r.st)
        /\ sysStart' = [sysStart EXCEPT ![s] = [pc |-> "settle1", tunnels |-> startTunnels]]
        /\ sysLast' = [SysEvent("startGo2rtc", r.res.pid, NoUrl, r.res)
                         EXCEPT !.exe = exe, !.yaml = yaml]
  /\ sysStop' = [t \in SysStops |-> [sysStop[t] EXCEPT !.clean = FALSE]]
  /\ sysQuiet' = FALSE
  /\ UNCHANGED <<recVars, fileVars>>

\* startTunnelApi() or the skip, then the 1000 ms timer. The skip reads
\* nothing of the disk: exe is then taken as present.
SystemStartTunnelApi(s, exe) ==
  /\ sysStart[s].pc = "settle1"
  /\ sysStart[s].tunnels \/ exe
  /\ LET r == IF sysStart[s].tunnels
                THEN startTunnelApi(SysSt, exe)
                ELSE SkipTunnel(SysSt, "skip tunnel-api")
     IN /\ WithinBound(r)
        /\ SetSys(r.st)
        /\ sysStart' = [sysStart EXCEPT ![s].pc = "settle2"]
        /\ sysLast' = [SysEvent("startTunnelApi", r.res.pid, NoUrl, r.res)
                         EXCEPT !.exe = exe]
  /\ UNCHANGED <<sysStop, sysQuiet>>
  /\ UNCHANGED <<recVars, fileVars>>

\* startTunnelCam() or the skip, then the response
SystemStartTunnelCam(s, exe) ==
  /\ sysStart[s].pc = "settle2"
  /\ sysStart[s].tunnels \/ exe
  /\ LET r == IF sysStart[s].tunnels
                THEN startTunnelCam(SysSt, exe)
                ELSE SkipTunnel(SysSt, "skip tunnel-cam")
     IN /\ WithinBound(r)
        /\ SetSys(r.st)
        /\ sysStart' = [sysStart EXCEPT ![s] = IdleStart]
        /\ sysLast' = [SysEvent("startTunnelCam", r.res.pid, NoUrl, r.res)
                         EXCEPT !.exe = exe]
  /\ UNCHANGED <<sysStop, sysQuiet>>
  /\ UNCHANGED <<recVars, fileVars>>

\* ------------------------------------------------- POST /api/system/stop
\* killProcessTree(proc): nothing to do and an already resolved promise when
\* proc is not running; otherwise the termination is sent and the promise
\* resolves later (taskkill's close, or the 300 ms timer). how is "killed"
\* where proc.kill('SIGTERM') was what sent it (it sets proc.killed), "term"
\* where taskkill or the process-group signal did. A process that has ended
\* already receives nothing.
killProcessTree(st, proc, how) ==
  IF proc = NoProc \/ ~isProcRunning(st, proc)
    THEN [st |-> st, waits |-> FALSE]
    ELSE [st |-> [st EXCEPT !.procs[proc].sig =
                     IF st.procs[proc].state = "running" THEN how ELSE @],
          waits |-> TRUE]

\* go2rtcProc = null; res.json(...)
StopClearGo2rtc(st) == [st |-> [st EXCEPT !.go2 = NoProc], pc |-> "idle"]

\* The request's position and its two flags, consts of the handler's closure.
StopFlags(pc, f) ==
  IF pc = "idle" THEN IdleStop
  ELSE [pc |-> pc, tunnels |-> f.tunnels, go2rtc |-> f.go2rtc, clean |-> f.clean]

\* if (stopGo2rtc) { await killProcessTree(go2rtcProc) ...
StopGo2rtc(st, f, how) ==
  IF ~f.go2rtc THEN [st |-> st, pc |-> "idle"]
  ELSE LET k == killProcessTree(st, st.go2, how)
       IN IF k.waits THEN [st |-> k.st, pc |-> "killedGo2rtc"]
          ELSE StopClearGo2rtc(k.st)

\* tunnelApiProc = null; tunnelCamProc = null; tunnelApiUrl = null; tunnelCamUrl = null
StopClearTunnels(st, f, how) ==
  StopGo2rtc([st EXCEPT !.api = NoProc, !.cam = NoProc,
                        !.apiUrl = NoUrl, !.camUrl = NoUrl], f, how)

\* results.tunnelCam = await killProcessTree(tunnelCamProc, ...)
StopTunnelCam(st, f, how) ==
  LET k == killProcessTree(st, st.cam, how)
  IN IF k.waits THEN [st |-> k.st, pc |-> "killedCam"]
     ELSE StopClearTunnels(k.st, f, how)

\* if (stopTunnels) { results.tunnelApi = await killProcessTree(tunnelApiProc, ...)
StopTunnelApi(st, f, how) ==
  IF ~f.tunnels THEN StopGo2rtc(st, f, how)
  ELSE LET k == killProcessTree(st, st.api, how)
       IN IF k.waits THEN [st |-> k.st, pc |-> "killedApi"]
          ELSE StopTunnelCam(k.st, f, how)

\* res.json({ ok: true, results }) when the handler has run to its end
StopEvent(t, pc, f) ==
  [ (IF pc = "idle"
       THEN SysEvent("systemStop", NoProc, NoUrl, Result(TRUE, "stopped", NoProc))
       ELSE SysEvent("systemStopWait", NoProc, NoUrl, NoResult))
    EXCEPT !.stopTunnels = f.tunnels, !.stopGo2rtc = f.go2rtc ]

\* sysQuiet after a step of a stop: set by the response of a stop with both
\* flags that no start request has followed.
QuietAfter(pc, f) ==
  IF pc = "idle" /\ f.tunnels /\ f.go2rtc /\ f.clean THEN TRUE ELSE sysQuiet

\* From the request to the first kill that has to be waited for (or the response).
SystemStopBegin(t, stopTunnels, stopGo2rtc, how) ==
  /\ sysStop[t].pc = "idle"
  /\ \A t2 \in SysStops : t2 < t => sysStop[t2].pc # "idle"
  /\ LET f == [tunnels |-> stopTunnels, go2rtc |-> stopGo2rtc, clean |-> TRUE]
         r == StopTunnelApi(SysSt, f, how)
     IN /\ SetSys(r.st)
        /\ sysStop' = [sysStop EXCEPT ![t] = StopFlags(r.pc, f)]
        /\ sysLast' = StopEvent(t, r.pc, f)
        /\ sysQuiet' = QuietAfter(r.pc, f)
  /\ UNCHANGED sysStart
  /\ UNCHANGED <<recVars, fileVars>>

\* From the end of a kill's wait to the next one (or the response).
SystemStopResume(t, how) ==
  /\ sysStop[t].pc # "idle"
  /\ LET f == sysStop[t]
         r == CASE sysStop[t].pc = "killedApi" -> StopTunnelCam(SysSt, f, how)
                [] sysStop[t].pc = "killedCam" -> StopClearTunnels(SysSt, f, how)
                [] sysStop[t].pc = "killedGo2rtc" -> StopClearGo2rtc(SysSt)
     IN /\ SetSys(r.st)
        /\ sysStop' = [sysStop EXCEPT ![t] = StopFlags(r.pc, f)]
        /\ sysLast' = StopEvent(t, r.pc, f)
        /\ sysQuiet' = QuietAfter(r.pc, f)
  /\ UNCHANGED sysStart
  /\ UNCHANGED <<recVars, fileVars>>

\* ------------------------------------------------ relay/tunnel processes
\* The process ends, with an exit code or by a signal. Of sig, only killed
\* is read of a process that has ended, and only while exitCode is null.
SysProcExit(p, bySignal) ==
  /\ sysProc[p].state = "running"
  /\ sysProc' = [sysProc EXCEPT ![p] =
        [kind |-> @.kind,
         state |-> IF bySignal THEN "signalled" ELSE "exited",
         sig |-> IF bySignal /\ @.sig = "killed" THEN "killed" ELSE "none"]]
  /\ sysLast' = SysEvent("exit", p, NoUrl, NoResult)
  /\ UNCHANGED <<go2rtcProc, tunnelApiProc, tunnelCamProc, tunnelApiUrl, tunnelCamUrl,
                 sysStart, sysStop, sysQuiet>>
  /\ UNCHANGED <<recVars, fileVars>>

\* the three .on('close') callbacks: each nulls the variables of its kind
SysClose(p) ==
  /\ sysProc[p].state \in {"exited", "signalled"}
  /\ sysProc' = [sysProc EXCEPT ![p] = Closed]
  /\ go2rtcProc' = IF sysProc[p].kind = "go2rtc" THEN NoProc ELSE go2rtcProc
  /\ tunnelApiProc' = IF sysProc[p].kind = "tunnelApi" THEN NoProc ELSE tunnelApiProc
  /\ tunnelApiUrl' = IF sysProc[p].kind = "tunnelApi" THEN NoUrl ELSE tunnelApiUrl
  /\ tunnelCamProc' = IF sysProc[p].kind = "tunnelCam" THEN NoProc ELSE tunnelCamProc
  /\ tunnelCamUrl' = IF sysProc[p].kind = "tunnelCam" THEN NoUrl ELSE tunnelCamUrl
  /\ sysLast' = SysEvent("close", p, NoUrl, NoResult)
  /\ UNCHANGED <<sysStart, sysStop, sysQuiet>>
  /\ UNCHANGED <<recVars, fileVars>>

UrlFirstMatchWins(cached, url) == IF url # NoUrl /\ cached = NoUrl THEN url ELSE cached
\* if (url) tunnelApiUrl = url;   (the same in all four data callbacks)
UrlAfterData(cached, url) == IF url # NoUrl THEN url ELSE cached

\* stdout/stderr 'data' of a tunnel process, until its streams are closed
TunnelData(p, chunk) ==
  /\ sysProc[p].kind \in {"tunnelApi", "tunnelCam"}
  /\ sysProc[p].state \in {"running", "exited", "signalled"}
  /\ LET url == extractTryCloudflareUrl(chunk)
     IN /\ tunnelApiUrl' = IF sysProc[p].kind = "tunnelApi"
                             THEN UrlAfterData(tunnelApiUrl, url) ELSE tunnelApiUrl
        /\ tunnelCamUrl' = IF sysProc[p].kind = "tunnelCam"
                             THEN UrlAfterData(tunnelCamUrl, url) ELSE tunnelCamUrl
        /\ sysLast' = SysEvent("data", p, url, NoResult)
  /\ UNCHANGED <<go2rtcProc, tunnelApiProc, tunnelCamProc, sysProc, sysStart, sysStop,
                 sysQuiet>>
  /\ UNCHANGED <<recVars, fileVars>>

SysNext ==
  \/ \E s \in SysStarts, tun \in BOOLEAN, exe \in BOOLEAN, yaml \in BOOLEAN :
       SystemStartGo2rtc(s, tun, exe, yaml)
  \/ \E s \in SysStarts, exe \in BOOLEAN : SystemStartTunnelApi(s, exe)
  \/ \E s \in SysStarts, exe \in BOOLEAN : SystemStartTunnelCam(s, exe)
  \/ \E t \in SysStops, tun \in BOOLEAN, go2 \in BOOLEAN, how \in {"term", "killed"} :
       SystemStopBegin(t, tun, go2, how)
  \/ \E t \in SysStops, how \in {"term", "killed"} : SystemStopResume(t, how)
  \/ \E p \in SysProcs, bySignal \in BOOLEAN : SysProcExit(p, bySignal)
  \/ \E p \in SysProcs : SysClose(p)
  \/ \E p \in SysProcs, chunk \in Chunks : TunnelData(p, chunk)

\* =================================================== GET /recordings/:file
MaxFileSize == 4
MaxDigits == 2
MaxDigit == 2

\* A number in the Range header, as its decimal digits; <<>> is the empty string.
Numerals == UNION {[1..n -> 0..MaxDigit] : n \in 1..MaxDigits}

\* parseInt(text, 10) of a string of decimal digits
RECURSIVE parseInt(_)
parseInt(text) ==
  IF text = <<>> THEN 0
  ELSE 10 * parseInt(SubSeq(text, 1, Len(text) - 1)) + text[Len(text)]

\* The file is the bytes at the offsets 0 .. size-1; a body is the offsets it
\* carries, in order.
Bytes(from, to) == [i \in 1..(to - from + 1) |-> from + i - 1]

\* The response: status, the Content-Length and Content-Range headers sent
\* (contentRange is <<start, end, fileSize>>), the body streamed, and whether
\* the handler threw after the head was written.
NoHeader == <<>>
Response(status, contentLength, contentRange, body, thrown) ==
  [status |-> status, contentLength |-> contentLength,
   contentRange |-> contentRange, body |-> body, thrown |-> thrown]
\* The request: whether the file exists, its size, and the two numbers of the
\* Range header (hasRange FALSE: no such header).
Request(exists, size, hasRange, first, second) ==
  [exists |-> exists, size |-> size, hasRange |-> hasRange,
   first |-> first, second |-> second]

FileInit ==
  served = [req |-> Request(FALSE, 0, FALSE, <<>>, <<>>),
            res |-> Response(0, NoHeader, NoHeader, <<>>, FALSE)]

\* fs.createReadStream(filePath, { start, end }).pipe(res): the constructor
\* throws for start > end; the stream ends at end or at the end of the file,
\* whichever comes first
createReadStream(size, start, end) ==
  IF start > end THEN [body |-> <<>>, thrown |-> TRUE]
  ELSE [body |-> Bytes(start, IF end < size - 1 THEN end ELSE size - 1),
        thrown |-> FALSE]

\* The handler, from the request to the end of the response. second = <<>> is
\* 'bytes=<start>-': parts[1] is the empty string, which is falsy.
GetRecording(exists, fileSize, hasRange, first, second) ==
  /\ served' =
       [req |-> Request(exists, fileSize, hasRange, first, second),
        res |->
          IF ~exists THEN Response(404, NoHeader, NoHeader, <<>>, FALSE)
          ELSE IF ~hasRange
            THEN Response(200, fileSize, NoHeader, Bytes(0, fileSize - 1), FALSE)
          ELSE LET start == parseInt(first)
                   end == IF second # <<>> THEN parseInt(second) ELSE fileSize - 1
               IN IF start >= fileSize
                    THEN Response(416, NoHeader, NoHeader, <<>>, FALSE)
                    ELSE LET chunkSize == end - start + 1
                             stream == createReadStream(fileSize, start, end)
                         IN Response(206, chunkSize, <<start, end, fileSize>>,
                                     stream.body, stream.thrown)]
  /\ UNCHANGED <<recVars, sysVars>>

\* What is not read is taken as one value: the size of a file that does not
\* exist, the numbers of a header that is not there.
FileNext ==
  \/ GetRecording(FALSE, 0, FALSE, <<>>, <<>>)
  \/ \E n \in 0..MaxFileSize : GetRecording(TRUE, n, FALSE, <<>>, <<>>)
  \/ \E n \in 0..MaxFileSize, a \in Numerals, b \in Numerals \cup {<<>>} :
       GetRecording(TRUE, n, TRUE, a, b)

\* ------------------------------------------------------------ specification
Init == RecInit /\ SysInit /\ FileInit

\* The recording registry, the facade and the file serving share no state:
\* each is checked as its own specification, the other parts standing still.
Spec == Init /\ [][Next]_vars
SeqSpec == Init /\ [][SeqNext]_vars
SysSpec == Init /\ [][SysNext]_vars
FileSpec == Init /\ [][FileNext]_vars

\* The event loop delivers the 'close' event of every encoder that has exited.
FairSpec == Spec /\ \A p \in Procs : WF_vars(Close(p))

\* ================================================================= claims
\* Everything of the recording part but the event record.
RegistryAndProcs == <<recordProcesses, activeCameras, procState, procCam, procQ>>

\* C1 (SeqSpec): with start requests handled one at a time, a start for a
\* camId that has a registry entry answers 409, spawns nothing and changes
\* neither the registry nor the requests; and no step replaces the process a
\* registry entry holds by another one, so an entry is never a second session
\* put over a first.
C1_ConflictKeepsOneSession ==
  [][ /\ (last'.op = "startCheck" /\ last'.cam # NoCam
            /\ recordProcesses[last'.cam] # NoProc)
         => /\ last'.code = 409
            /\ UNCHANGED RegistryAndProcs
            /\ UNCHANGED req
      /\ \A c \in Cams :
           recordProcesses[c] # NoProc
             => recordProcesses'[c] \in {NoProc, recordProcesses[c]} ]_vars

\* C1 witness: a 409 was just answered for a camera whose encoder is running.
C1_Witness ==
  /\ last.op = "startCheck" /\ last.code = 409
  /\ recordProcesses[last.cam] # NoProc
  /\ procState[recordProcesses[last.cam]] = "running"

\* C2 (Spec): a start that passed the exclusivity check and whose disk query
\* reports enough space spawns an encoder and registers it, whatever the
\* registry holds for the camId by then; two overlapping starts for one camId
\* so both spawn (the witness).
C2_ResumeSpawnsWithoutRecheck ==
  [][ (last'.op = "startResume" /\ last'.free # QueryFails
         /\ last'.free >= MIN_FREE_GB * UnitsPerGB)
      => /\ last'.code = 200
         /\ last'.proc # NoProc
         /\ procState[last'.proc] = "unborn"
         /\ procState'[last'.proc] = "running"
         /\ procCam'[last'.proc] = last'.cam
         /\ recordProcesses'[last'.cam] = last'.proc ]_vars

\* C2 witness: two encoders of one camId are alive, neither was told to stop,
\* and the second was spawned by a request that overlapped the first's.
C2_Witness ==
  \E p1, p2 \in Procs :
    /\ p1 < p2
    /\ procCam[p1] = procCam[p2]
    /\ procState[p1] = "running" /\ procState[p2] = "running"
    /\ ~procQ[p1] /\ ~procQ[p2]
    /\ last.op = "startResume" /\ last.proc = p2

\* C3 (SeqSpec): the 'close' event of an encoder removes a registry entry only
\* if the entry still holds that encoder: the entry of another (newer) encoder
\* stays.
C3_CloseRemovesOnlyOwnEntry ==
  [][ \A c \in Cams :
        (last'.op = "close" /\ recordProcesses[c] # NoProc
           /\ recordProcesses[c] # last'.proc)
        => recordProcesses'[c] = recordProcesses[c] ]_vars

\* C4 (Spec): when the disk query succeeds, the start is rejected with 507
\* exactly when the free space is below 20 GB; a rejected start registers and
\* spawns nothing, an admitted one (free space at or above 20 GB) is started.
C4_DiskAdmissionThreshold ==
  [][ (last'.op = "startResume" /\ last'.free # QueryFails)
      => IF last'.free < MIN_FREE_GB * UnitsPerGB
           THEN /\ last'.code = 507
                /\ UNCHANGED RegistryAndProcs
           ELSE /\ last'.code = 200 /\ last'.status = "started"
                /\ recordProcesses'[last'.cam] = last'.proc
                /\ procState'[last'.proc] = "running" ]_vars

\* C4 witness: a start was just rejected at one unit (1 MiB) below 20 GB.
C4_Witness ==
  /\ last.op = "startResume" /\ last.code = 507
  /\ last.free = MIN_FREE_GB * UnitsPerGB - 1

\* C5 (Spec): stop of a camId that has a session, the write going through,
\* writes the stop byte to the encoder the entry holds, removes the camId from
\* both maps in the same step (the encoder's state is what it was) and answers
\* 'stopping'; the camId is then absent from the recording status.
C5_StopRemovesAtOnce ==
  [][ (last'.op = "stop" /\ last'.cam # NoCam
         /\ recordProcesses[last'.cam] # NoProc /\ last'.failed = {})
      => /\ last'.code = 200 /\ last'.status = "stopping"
         /\ last'.proc = recordProcesses[last'.cam]
         /\ procQ'[last'.proc]
         /\ recordProcesses'[last'.cam] = NoProc
         /\ activeCameras'[last'.cam] = NoSession
         /\ last'.cam \notin {c \in Cams : recordProcesses'[c] # NoProc}
         /\ UNCHANGED <<procState, procCam, req>> ]_vars

\* C5 witness: 'stopping' was just answered and the encoder is still running.
C5_Witness ==
  /\ last.op = "stop" /\ last.status = "stopping"
  /\ procState[last.proc] = "running"
  /\ recordProcesses[last.cam] = NoProc

\* C6 (Spec): a stop whose write throws answers 500 with status 'error' and
\* leaves the registry as it was: the camId keeps its entry in both maps.
C6_FailedStopKeepsEntry ==
  [][ (last'.op = "stop" /\ last'.failed # {})
      => /\ last'.code = 500 /\ last'.status = "error"
         /\ UNCHANGED RegistryAndProcs
         /\ recordProcesses'[last'.cam] # NoProc
         /\ activeCameras'[last'.cam] # NoSession ]_vars

\* C6 witness: a stop just failed on a running encoder, which is still listed.
C6_Witness ==
  /\ last.op = "stop" /\ last.code = 500
  /\ recordProcesses[last.cam] = last.proc
  /\ procState[last.proc] = "running"

C8_StopAllSignalsEverySession ==
  [][ last'.op = "stopAll"
      => LET cams == {c \in Cams : recordProcesses[c] # NoProc}
         IN /\ last'.code = 200
            /\ last'.stopped = cams
            /\ last'.status = IF cams = {} THEN "not recording" ELSE "stopping_all"
            /\ \A c \in cams \ last'.failed : procQ'[recordProcesses[c]]
            /\ UNCHANGED procState ]_vars

\* C8 witness: a stopAll over two sessions, one write of which threw, and the
\* other encoder got its first stop byte from it.
C8_Witness ==
  /\ last.op = "stopAll"
  /\ last.failed # {}
  /\ \E c \in last.stopped \ last.failed :
       /\ procQ[recordProcesses[c]]
       /\ procState[recordProcesses[c]] = "running"
       /\ \E f \in last.failed : f < c

\* C9 (FairSpec): an encoder that exited without having been sent the stop
\* byte leads to the registry holding no entry for its camId; and a start for
\* a camId without an entry is not answered 409 (it goes on to the disk query).
C9_ExitedEncoderIsRemoved ==
  /\ \A p \in Procs :
       (procState[p] = "exited" /\ ~procQ[p])
         ~> (\E c \in Cams : procCam[p] = c /\ recordProcesses[c] = NoProc
                                /\ activeCameras[c] = NoSession)
  /\ [][ (last'.op = "startCheck" /\ last'.cam # NoCam
            /\ recordProcesses[last'.cam] = NoProc)
         => last'.code = 0 /\ req'[last'.cam] = req[last'.cam] + 1 ]_vars

\* C9 witness: an encoder closed without a stop byte, its camId has no entry,
\* and a start for that camId has just passed the exclusivity check.
C9_Witness ==
  \E p \in Procs :
    /\ procState[p] = "closed" /\ ~procQ[p]
    /\ last.op = "startCheck" /\ last.cam = procCam[p] /\ last.code = 0

\* The cached URL of a tunnel kind.
CachedUrl(kind) == IF kind = "tunnelApi" THEN tunnelApiUrl ELSE tunnelCamUrl

TunnelState == <<tunnelApiProc, tunnelCamProc, tunnelApiUrl, tunnelCamUrl>>

\* C11 (SysSpec): a system/start request goes through its three steps in the
\* order relay, API tunnel, camera tunnel, keeping its startTunnels flag; with
\* startTunnels true the second and third step are the start attempts of the
\* API tunnel and of the camera tunnel; with startTunnels false they spawn
\* nothing, leave the tunnel handles and URLs as they were, and are reported
\* as skipped with ok true.
C11_StartOrderAndSkip ==
  [][ \A s \in SysStarts :
        sysStart'[s] # sysStart[s]
        => \/ /\ sysStart[s].pc = "idle" /\ sysStart'[s].pc = "settle1"
              /\ sysLast'.op = "startGo2rtc"
              /\ sysLast'.res.msg \in {"go2rtc already running", "go2rtc.exe not found",
                                       "go2rtc.yaml not found", "go2rtc started"}
              /\ UNCHANGED TunnelState
           \/ /\ sysStart[s].pc = "settle1" /\ sysStart'[s].pc = "settle2"
              /\ sysStart'[s].tunnels = sysStart[s].tunnels
              /\ sysLast'.op = "startTunnelApi"
              /\ UNCHANGED <<go2rtcProc, tunnelCamProc, tunnelCamUrl>>
              /\ IF sysStart[s].tunnels
                   THEN sysLast'.res.msg \in {"tunnel-api already running",
                                               "cloudflared.exe not found",
                                               "tunnel-api started"}
                   ELSE /\ sysLast'.res.ok /\ sysLast'.res.msg = "skip tunnel-api"
                        /\ UNCHANGED TunnelState /\ UNCHANGED sysProc
           \/ /\ sysStart[s].pc = "settle2" /\ sysStart'[s].pc = "idle"
              /\ sysLast'.op = "startTunnelCam"
              /\ UNCHANGED <<go2rtcProc, tunnelApiProc, tunnelApiUrl>>
              /\ IF sysStart[s].tunnels
                   THEN sysLast'.res.msg \in {"tunnel-cam already running",
                                               "cloudflared.exe not found",
                                               "tunnel-cam started"}
                   ELSE /\ sysLast'.res.ok /\ sysLast'.res.msg = "skip tunnel-cam"
                        /\ UNCHANGED TunnelState /\ UNCHANGED sysProc ]_vars

\* C11 witness: the camera tunnel was just started by a request that started
\* the API tunnel in its step before; both run, the API tunnel being the older.
C11_Witness ==
  /\ sysLast.op = "startTunnelCam" /\ sysLast.res.msg = "tunnel-cam started"
  /\ tunnelCamProc = sysLast.proc
  /\ tunnelApiProc # NoProc /\ tunnelApiProc < tunnelCamProc
  /\ sysProc[tunnelApiProc].state = "running"

\* C11 witness of the skip: the last step of a start without tunnels was just
\* reported as skipped while the relay it started runs and a tunnel URL that
\* an earlier start's tunnel announced is still cached.
C11_SkipWitness ==
  /\ sysLast.op = "startTunnelCam" /\ sysLast.res.msg = "skip tunnel-cam"
  /\ tunnelApiUrl # NoUrl

\* The processes of the two tunnels, and those of the relay.
TunnelProcs == {p \in SysProcs : sysProc[p].kind \in {"tunnelApi", "tunnelCam"}}
RelayProcs == {p \in SysProcs : sysProc[p].kind = "go2rtc"}

\* What a step of system/stop leaves alone: with stopTunnels false no tunnel
\* process is sent anything and the tunnel handles and URLs stay; with
\* stopGo2rtc false no relay process is sent anything and its handle stays.
StopFrame ==
  /\ ~sysLast'.stopTunnels
       => /\ UNCHANGED TunnelState
          /\ \A p \in TunnelProcs : sysProc'[p] = sysProc[p]
  /\ ~sysLast'.stopGo2rtc
       => /\ UNCHANGED go2rtcProc
          /\ \A p \in RelayProcs : sysProc'[p] = sysProc[p]

\* C12 (SysSpec): every step of a system/stop keeps to its flags (StopFrame),
\* and when the response is sent the handles and URLs of the tunnels are null
\* if stopTunnels was true, the relay handle is null if stopGo2rtc was true.
C12_StopPerFlag ==
  [][ sysLast'.op \in {"systemStop", "systemStopWait"}
      => /\ StopFrame
         /\ sysLast'.op = "systemStop"
              => /\ sysLast'.stopTunnels
                      => /\ tunnelApiProc' = NoProc /\ tunnelCamProc' = NoProc
                         /\ tunnelApiUrl' = NoUrl /\ tunnelCamUrl' = NoUrl
                 /\ sysLast'.stopGo2rtc => go2rtcProc' = NoProc ]_vars

\* The part of C12 that holds (SysSpec): the frame of every step, the relay
\* handle null at the response of a stop with stopGo2rtc, and the tunnel
\* handles and URLs null at the response of a stop with stopTunnels that did
\* not have to wait for the relay's termination after clearing them.
StopPerFlagWithoutRelayWait ==
  [][ sysLast'.op \in {"systemStop", "systemStopWait"}
      => /\ StopFrame
         /\ sysLast'.op = "systemStop"
              => /\ (sysLast'.stopTunnels
                       /\ \A t \in SysStops : sysStop[t].pc # "killedGo2rtc")
                      => /\ tunnelApiProc' = NoProc /\ tunnelCamProc' = NoProc
                         /\ tunnelApiUrl' = NoUrl /\ tunnelCamUrl' = NoUrl
                 /\ sysLast'.stopGo2rtc => go2rtcProc' = NoProc ]_vars

\* C12 with the URLs left out: the handles alone.
StopPerFlagHandles ==
  [][ (sysLast'.op = "systemStop" /\ sysLast'.stopTunnels)
      => tunnelApiProc' = NoProc /\ tunnelCamProc' = NoProc ]_vars

\* The handle a start attempt looks at, and whether it holds a process that
\* isProcRunning takes as running.
StartHandle(op) ==
  IF op = "startGo2rtc" THEN go2rtcProc
  ELSE IF op = "startTunnelApi" THEN tunnelApiProc ELSE tunnelCamProc
TrackedRunning(op) ==
  /\ StartHandle(op) # NoProc
  /\ sysProc[StartHandle(op)].sig # "killed"
  /\ sysProc[StartHandle(op)].state \in {"running", "signalled"}

\* A step that is a start attempt (not a skip) with a file it needs missing.
AttemptWithMissingFile ==
  /\ sysLast'.op \in {"startGo2rtc", "startTunnelApi", "startTunnelCam"}
  /\ sysLast'.res.msg \notin {"skip tunnel-api", "skip tunnel-cam"}
  /\ ~sysLast'.exe \/ (sysLast'.op = "startGo2rtc" /\ ~sysLast'.yaml)

\* The structured failure: ok false with the message naming the file, no
\* process spawned, every handle and URL as it was.
FailsStructured ==
  /\ ~sysLast'.res.ok
  /\ sysLast'.res.msg =
       IF sysLast'.op = "startGo2rtc"
         THEN (IF sysLast'.exe THEN "go2rtc.yaml not found" ELSE "go2rtc.exe not found")
         ELSE "cloudflared.exe not found"
  /\ sysLast'.res.pid = NoProc
  /\ UNCHANGED <<sysProc, go2rtcProc>> /\ UNCHANGED TunnelState

\* C13 as stated (SysSpec): a start attempt with its executable or config
\* file missing returns the structured failure.
C13_MissingFileFails ==
  [][ AttemptWithMissingFile => FailsStructured ]_vars

\* C13 as amended (SysSpec): a start attempt with its executable or config
\* file missing returns the structured failure if the tracked process of the
\* kind is not running; if it is running the attempt returns ok with that
\* process's id ('already running') without looking at the files. Either way
\* nothing is spawned and no handle or URL changes.
C13_MissingFileFailsUnlessRunning ==
  [][ AttemptWithMissingFile
      => IF TrackedRunning(sysLast'.op)
           THEN /\ sysLast'.res.ok /\ sysLast'.res.pid = StartHandle(sysLast'.op)
                /\ UNCHANGED <<sysProc, go2rtcProc>> /\ UNCHANGED TunnelState
           ELSE FailsStructured ]_vars

\* C13 witness: the API tunnel start just failed for the missing executable
\* while the handle holds a process that has exited and a URL is cached.
C13_Witness ==
  /\ sysLast.op = "startTunnelApi" /\ ~sysLast.exe /\ ~sysLast.res.ok
  /\ tunnelApiProc # NoProc /\ sysProc[tunnelApiProc].state = "exited"
  /\ tunnelApiUrl # NoUrl

\* C14 (FileSpec): for an existing file of size N and the header
\* bytes=<start>-<end?>, the end being N-1 when absent: 416 if start >= N;
\* otherwise 206 with Content-Range start-end/N, Content-Length end-start+1,
\* and a body of exactly that many bytes, the slice [start, end] of the file.
C14_RangeServesExactSlice ==
  (served.req.exists /\ served.req.hasRange)
  => LET N == served.req.size
         start == parseInt(served.req.first)
         end == IF served.req.second = <<>> THEN N - 1 ELSE parseInt(served.req.second)
     IN IF start >= N
          THEN served.res.status = 416
          ELSE /\ served.res.status = 206
               /\ served.res.contentRange = <<start, end, N>>
               /\ served.res.contentLength = end - start + 1
               /\ Len(served.res.body) = served.res.contentLength
               /\ served.res.body = [i \in 1..(end - start + 1) |-> start + i - 1]
               /\ ~served.res.thrown

\* The part of C14 that holds (FileSpec): the same, for the requests whose
\* end lies in the file and not before the start; and 416 exactly for
\* start >= N.
RangeWithinFileServesExactSlice ==
  (served.req.exists /\ served.req.hasRange)
  => LET N == served.req.size
         start == parseInt(served.req.first)
         end == IF served.req.second = <<>> THEN N - 1 ELSE parseInt(served.req.second)
     IN /\ (served.res.status = 416) = (start >= N)
        /\ (start < N /\ start <= end /\ end < N)
             => /\ served.res.status = 206
                /\ served.res.contentRange = <<start, end, N>>
                /\ served.res.contentLength = end - start + 1
                /\ Len(served.res.body) = served.res.contentLength
                /\ served.res.body = [i \in 1..(end - start + 1) |-> start + i - 1]
                /\ ~served.res.thrown

\* A slice of more than one byte from inside the file was served.
RangeWithinFileWitness ==
  /\ served.res.status = 206 /\ ~served.res.thrown
  /\ served.res.contentRange = <<1, 2, 4>>
  /\ served.res.body = <<1, 2>>

\* C15 (SysSpec): the 'close' callback of a relay or tunnel process clears
\* only its own process's state: a handle that holds another (newer) process
\* stays, and so does the URL cached for that process.
C15_SysCloseClearsOnlyOwn ==
  [][ sysLast'.op = "close"
      => /\ (go2rtcProc # NoProc /\ go2rtcProc # sysLast'.proc)
              => go2rtcProc' = go2rtcProc
         /\ (tunnelApiProc # NoProc /\ tunnelApiProc # sysLast'.proc)
              => tunnelApiProc' = tunnelApiProc /\ tunnelApiUrl' = tunnelApiUrl
         /\ (tunnelCamProc # NoProc /\ tunnelCamProc # sysLast'.proc)
              => tunnelCamProc' = tunnelCamProc /\ tunnelCamUrl' = tunnelCamUrl ]_vars

\* The case C15 names: a system/stop has answered, a later start has spawned
\* a new process of the kind, and the close of the earlier one clears the
\* handle while the new process runs.
LateCloseDropsRunningProcess ==
  /\ sysLast.op = "close"
  /\ \E p \in SysProcs :
       /\ p > sysLast.proc
       /\ sysProc[p].state = "running" /\ sysProc[p].sig = "none"
       /\ sysProc[p].kind = "go2rtc" /\ go2rtcProc = NoProc

\* C16 (Spec): a start without camId answers 400 and a start for a camId that
\* has a registry entry answers 409, both before the disk is queried (no
\* request is left waiting for the query) and whatever else the registry
\* holds, and no other start is answered 400 or 409; 507 is answered only
\* after the query, by a request that passed both checks; and a start
\* answering 400, 409 or 507 registers and spawns nothing.
C16_StartCheckOrder ==
  [][ /\ (last'.op = "startCheck" /\ last'.cam = NoCam)
           => last'.code = 400 /\ UNCHANGED req
      /\ (last'.op = "startCheck" /\ last'.cam # NoCam
             /\ recordProcesses[last'.cam] # NoProc)
           => last'.code = 409 /\ UNCHANGED req
      /\ (last'.op = "startCheck" /\ last'.code = 400) => last'.cam = NoCam
      /\ (last'.op = "startCheck" /\ last'.code = 409)
           => last'.cam # NoCam /\ recordProcesses[last'.cam] # NoProc
      /\ (last'.op = "startCheck" /\ last'.code = 0)
           => /\ last'.cam # NoCam /\ recordProcesses[last'.cam] = NoProc
              /\ req'[last'.cam] = req[last'.cam] + 1
      /\ (last'.op = "startResume")
           => /\ req[last'.cam] > 0 /\ req'[last'.cam] = req[last'.cam] - 1
              /\ last'.code \in {507, 200}
              /\ last'.code = 507
                   <=> (last'.free = QueryFails
                          \/ last'.free < MIN_FREE_GB * UnitsPerGB)
      /\ (last'.op \in {"startCheck", "startResume"} /\ last'.code \in {400, 409, 507})
           => UNCHANGED RegistryAndProcs ]_vars

\* C16 witness: a start without camId was just answered 400 while a session
\* is registered and another start waits for its disk query.
C16_Witness ==
  /\ last.op = "startCheck" /\ last.code = 400
  /\ \E c \in Cams : recordProcesses[c] # NoProc /\ procState[recordProcesses[c]] = "running"
  /\ \E c \in Cams : req[c] > 0

\* C16, the 409 before the disk: a conflict was just answered while another
\* start waits for its disk query.
C16_ConflictWitness ==
  /\ last.op = "startCheck" /\ last.code = 409
  /\ \E c \in Cams : req[c] > 0

\* No process is spawned in the step.
NoSpawn == \A p \in SysProcs : sysProc[p].state = "unborn" => sysProc'[p].state = "unborn"
HandlesNull == go2rtcProc = NoProc /\ tunnelApiProc = NoProc /\ tunnelCamProc = NoProc

\* C17 (SysSpec): once a system/stop with both flags has answered, and as
\* long as no system/start is received after that stop was received, all
\* three handles are null and no step spawns a relay or tunnel process, a
\* start that was waiting in a settle delay included.
C17_NothingStartsAfterStop ==
  /\ [](sysQuiet => HandlesNull)
  /\ [][ (sysQuiet /\ sysQuiet') => NoSpawn ]_vars

\* The part of C17 that holds (SysSpec): after such a stop, a step taken
\* while no system/start is waiting in a settle delay spawns nothing and sets
\* no handle; only the steps of a start that was waiting do.
OnlyWaitingStartSpawnsAfterStop ==
  [][ (sysQuiet /\ sysQuiet' /\ \A s \in SysStarts : sysStart[s].pc = "idle")
      => /\ NoSpawn
         /\ go2rtcProc' \in {go2rtcProc, NoProc}
         /\ tunnelApiProc' \in {tunnelApiProc, NoProc}
         /\ tunnelCamProc' \in {tunnelCamProc, NoProc} ]_vars

\* The case C17 names: the stop has answered, no start was received since,
\* and a tunnel that the waiting start spawned afterwards runs.
TunnelRunsAfterStop ==
  /\ sysQuiet
  /\ sysLast.op = "startTunnelCam" /\ sysLast.res.msg = "tunnel-cam started"
  /\ tunnelCamProc # NoProc /\ sysProc[tunnelCamProc].state = "running"

\* C18 (SeqSpec): stopAll removes nothing from the two maps; and the entry of
\* an encoder that stopAll has written the stop byte to (a single stop removes
\* the entry with the write, so an entry whose encoder has the byte got it
\* from stopAll) goes away only by the 'close' of that encoder, a later
\* single stop for the camId aside.
C18_StopAllKeepsEntriesUntilClose ==
  [][ /\ last'.op = "stopAll" => UNCHANGED <<recordProcesses, activeCameras>>
      /\ \A c \in Cams :
           (/\ recordProcesses[c] # NoProc
            /\ procQ[recordProcesses[c]]
            /\ recordProcesses'[c] # recordProcesses[c]
            /\ last'.op # "stop")
           => last'.op = "close" /\ last'.proc = recordProcesses[c] ]_vars

\* The part of C18 that holds (Spec): stopAll changes neither map, a start
\* for a camId that stopAll has just listed is answered 409 as long as the
\* entry is there, and the 'close' of the encoder an entry holds removes it.
StopAllKeepsEntries ==
  [][ /\ last'.op = "stopAll"
           => /\ UNCHANGED <<recordProcesses, activeCameras>>
              /\ \A c \in last'.stopped :
                   recordProcesses'[c] # NoProc /\ activeCameras'[c] # NoSession
      /\ (last'.op = "startCheck" /\ last'.cam # NoCam
             /\ recordProcesses[last'.cam] # NoProc)
           => last'.code = 409
      /\ (last'.op = "close" /\ recordProcesses[last'.cam] = last'.proc)
           => recordProcesses'[last'.cam] = NoProc
                /\ activeCameras'[last'.cam] = NoSession ]_vars

\* The case C18 names: a start was just answered 409 for a camId whose encoder
\* has the stop byte of a stopAll and has not ended yet.
StopAllThenConflictWitness ==
  /\ last.op = "startCheck" /\ last.code = 409
  /\ procQ[recordProcesses[last.cam]]
  /\ procState[recordProcesses[last.cam]] = "running"

\* Every process spawned so far runs and has been sent no termination: no
\* stop has reached any of them and none has ended.
AllAlive ==
  \A p \in SysProcs :
    sysProc[p].state # "unborn" => sysProc[p].state = "running" /\ sysProc[p].sig = "none"

\* C19 (SysSpec): a start attempt for a kind whose handle holds a running
\* process spawns nothing, changes no handle and no URL, and returns ok with
\* the id of that process; and as long as no process has been terminated or
\* has ended, there is at most one process of each kind, held by its handle.
C19_RunningIsNotRestarted ==
  /\ [][ (/\ sysLast'.op \in {"startGo2rtc", "startTunnelApi", "startTunnelCam"}
          /\ sysLast'.res.msg \notin {"skip tunnel-api", "skip tunnel-cam"}
          /\ TrackedRunning(sysLast'.op))
         => /\ sysLast'.res.ok
            /\ sysLast'.res.pid = StartHandle(sysLast'.op)
            /\ sysLast'.res.msg \in {"go2rtc already running", "tunnel-api already running",
                                     "tunnel-cam already running"}
            /\ UNCHANGED <<sysProc, go2rtcProc>> /\ UNCHANGED TunnelState ]_vars
  /\ [](AllAlive =>
          /\ Cardinality(RelayProcs) <= 1
          /\ Cardinality({p \in SysProcs : sysProc[p].kind = "tunnelApi"}) <= 1
          /\ Cardinality({p \in SysProcs : sysProc[p].kind = "tunnelCam"}) <= 1
          /\ \A p \in SysProcs :
               /\ sysProc[p].kind = "go2rtc" => go2rtcProc = p
               /\ sysProc[p].kind = "tunnelApi" => tunnelApiProc = p
               /\ sysProc[p].kind = "tunnelCam" => tunnelCamProc = p)

\* C19 witness: a second system/start has just found the API tunnel running
\* and returned its id; the tunnel and the relay run, untouched, and the
\* tunnel's URL is cached.
C19_Witness ==
  /\ sysLast.op = "startTunnelApi" /\ sysLast.res.msg = "tunnel-api already running"
  /\ sysLast.res.pid = tunnelApiProc
  /\ AllAlive
  /\ go2rtcProc # NoProc /\ tunnelApiProc # NoProc
  /\ tunnelApiUrl # NoUrl

====
